---- MODULE Spec2Model ----
(***************************************************************************)
(* go-banking: the in-memory ledger store, the Bank Z mock gateway and the *)
(* createCustomer / transferMoney request handlers, as a state machine.    *)
(*                                                                         *)
(* Handlers run concurrently (one goroutine per request).  Every call on   *)
(* the store takes the store's RWMutex for the whole call, so a store call *)
(* is one atomic step; the code between two store calls works on the       *)
(* handler's local copies only and is folded into the step of the store or *)
(* gateway call that follows the previous one.  The gateway has no lock:   *)
(* the reads and writes of its token and of its account map are separate   *)
(* steps.  (The Go runtime may also abort the process on a concurrent map  *)
(* write; that outcome is a behaviour that stops, which every              *)
(* specification below allows.)                                            *)
(*                                                                         *)
(* Money is counted in units of 0.05, so 500.0 is 10000 units, and the fee *)
(* (amount * 0.0005) and the interest (amount * 0.005) are whole numbers   *)
(* for amounts that are multiples of 2000 units (100.0).  CreatedAt, Name  *)
(* and Email are not modelled: no handler decision reads them.             *)
(***************************************************************************)
EXTENDS Integers, Sequences, FiniteSets, TLC

\* ------------------------------------------------------------------ bounds
MaxRequests == 3
MaxCustomers == 2
MaxClock == 2

\* ------------------------------------------------------- program constants
\* 500.0, the savings seed and the bonus amount, in units of 0.05
Bonus == 10000
\* the token's life (1 hour) in clock ticks
TokenTTL == 1

Procs == {"h1", "h2"}

\* ------------------------------------------------------------ identifiers
\* Strings of the program are numbers here: 0 is the empty string.
NoId == 0
CurrentId(c) == 10 * c + 1
SavingsId(c) == 10 * c + 2
CustomerIds == 1..MaxCustomers
LocalIds == {CurrentId(c) : c \in CustomerIds} \cup {SavingsId(c) : c \in CustomerIds}
BankzIds == {123, 456}
\* IDs that are neither local nor Bank Z accounts
UnknownIds == {999}

NoTx == <<"", 0>>
\* uuid.New(): the k-th uuid drawn by the n-th request
Uuid(n, k) == <<"uuid", 10 * n + k>>
\* fmt.Sprintf("bankz-tx-%d", time.Now().UnixNano())
BankzTxId(now) == <<"bankz-tx", now>>
\* fmt.Sprintf("token-%d", time.Now().UnixNano())
TokenId(now) == <<"token", now>>
NoToken == <<"", 0>>

VARIABLES
    customers,      \* Store.customers: the set of stored customer IDs
    accounts,       \* Store.accounts: account ID -> Account
    transactions,   \* Store.transactions: transaction ID -> Transaction
    bankzAccounts,  \* MockClient.accounts: Bank Z account ID -> balance
    bankzToken,     \* MockClient.token: NoTokenRec or [AccessToken, ExpiresAt]
    clock,          \* time.Now()
    nextCustomer,   \* the number of customer uuids drawn so far
    reqCount,       \* the number of requests started so far
    pc,             \* each handler's position
    req,            \* each handler's request
    local,          \* each handler's local variables
    resp,           \* each handler's response
    pre,            \* the ledger and the gateway as a sequential request found them
    mutex           \* Store.mutex: the store call for which each handler holds it, or ""

vars == <<customers, accounts, transactions, bankzAccounts, bankzToken, clock,
          nextCustomer, reqCount, pc, req, local, resp, pre, mutex>>

storeVars == <<customers, accounts, transactions>>
gatewayVars == <<bankzAccounts, bankzToken>>

\* ---------------------------------------------------------------- records
NoAccount == [ID |-> NoId, CustomerID |-> NoId, Type |-> "", Balance |-> 0]
NoTokenRec == [AccessToken |-> NoToken, ExpiresAt |-> 0]
NoReq == [kind |-> "", customerID |-> NoId, from |-> NoId, to |-> NoId, amount |-> 0,
          valid |-> FALSE, no |-> 0]
NoLocal == [token |-> NoToken, fromAccount |-> NoAccount, toAccount |-> NoAccount,
            fee |-> 0, interest |-> 0, bankzBalance |-> 0, transactionID |-> NoTx,
            customerID |-> NoId]
NoResp == [status |-> 0, errors |-> <<>>, transactionID |-> NoTx]

Put(f, k, v) == [x \in DOMAIN f \cup {k} |-> IF x = k THEN v ELSE f[x]]

Errors(status, msgs) == [status |-> status, errors |-> msgs, transactionID |-> NoTx]
Created(id) == [status |-> 201, errors |-> <<>>, transactionID |-> id]

\* ------------------------------------------------------------------ store
GetCustomerByID(id) == id \in customers
GetAccountByID(id) == IF id \in DOMAIN accounts THEN accounts[id] ELSE NoAccount
AccountFound(id) == id \in DOMAIN accounts
UpdateAccount(account) == Put(accounts, account.ID, account)
AddAccount(account) == Put(accounts, account.ID, account)
AddTransaction(transaction) == Put(transactions, transaction.ID, transaction)


\* the accounts of a customer, as getCustomerAccounts reads them
GetAccountsByCustomerID(customerID) ==
    {accounts[id] : id \in {x \in DOMAIN accounts : accounts[x].CustomerID = customerID}}
\* the transactions posted against any account of a customer, as
\* getCustomerTransactions reads them
GetTransactionsByCustomerID(customerID) ==
    LET accountIDs == {x \in DOMAIN accounts : accounts[x].CustomerID = customerID} IN
    {transactions[id] : id \in {x \in DOMAIN transactions :
                                   transactions[x].AccountID \in accountIDs}}

Transaction(id, account, customer, type, amount, from, to) ==
    [ID |-> id, AccountID |-> account, CustomerID |-> customer, Type |-> type,
     Amount |-> amount, FromAccountID |-> from, ToAccountID |-> to]

\* ---------------------------------------------------------------- gateway

\* The cache check letting a token through at the very instant it expires.
TokenCachedAtExpiry == bankzToken # NoTokenRec /\ bankzToken.ExpiresAt >= clock

\* c.token != nil && c.token.ExpiresAt.After(time.Now())
TokenCached == bankzToken # NoTokenRec /\ bankzToken.ExpiresAt > clock
\* c.token == nil || c.token.AccessToken != token || c.token.ExpiresAt.Before(time.Now())
TokenInvalid(token) ==
    \/ bankzToken = NoTokenRec
    \/ bankzToken.AccessToken # token
    \/ bankzToken.ExpiresAt < clock
MintedToken == [AccessToken |-> TokenId(clock), ExpiresAt |-> clock + TokenTTL]
\* GetBalance's error, or "" when it returns the balance
GetBalanceError(accountID, token) ==
    IF TokenInvalid(token) THEN "invalid or expired token"
    ELSE IF accountID \notin DOMAIN bankzAccounts THEN "Bank Z account not found"
    ELSE ""

\* InitiateTransfer's checks with the amount looked at before the token.
InitiateTransferErrorAmountFirst(toAccountID, token, amount) ==
    IF amount <= 0 THEN "amount must be positive"
    ELSE IF TokenInvalid(token) THEN "invalid or expired token"
    ELSE IF toAccountID \notin DOMAIN bankzAccounts THEN "destination Bank Z account not found"
    ELSE ""

\* InitiateTransfer's error, or "" when it goes on to credit the account
InitiateTransferError(toAccountID, token, amount) ==
    IF TokenInvalid(token) THEN "invalid or expired token"
    ELSE IF amount <= 0 THEN "amount must be positive"
    ELSE IF toAccountID \notin DOMAIN bankzAccounts THEN "destination Bank Z account not found"
    ELSE ""

\* ----------------------------------------------------------- transfer policy
\* Fee charged whatever the kind of the source account.
FeeForAnySource(type, amount) == (amount * 5) \div 10000
\* fee = req.Amount * 0.0005 for a "current" source
Fee(type, amount) == IF type = "current" THEN (amount * 5) \div 10000 ELSE 0
\* interest = req.Amount * 0.005 for a "savings" destination
Interest(type, amount) == IF type = "savings" THEN (amount * 5) \div 1000 ELSE 0
\* The funds check with the comparison turned around.
InsufficientFundsReversed(balance, required) == required < balance
InsufficientFunds(balance, required) == balance < required
Debit(account, amount) == [account EXCEPT !.Balance = @ - amount]
Credit(account, amount) == [account EXCEPT !.Balance = @ + amount]


\* The request checks stopping at the first one that fails.
ValidationErrorsFirstOnly(r) ==
    IF r.from = NoId THEN <<"From account ID cannot be empty">>
    ELSE IF r.to = NoId THEN <<"To account ID cannot be empty">>
    ELSE IF r.amount <= 0 THEN <<"Amount must be positive">>
    ELSE IF r.from = r.to THEN <<"Cannot transfer to the same account">>
    ELSE <<>>

\* the errors list of the request checks
ValidationErrors(r) ==
    (IF r.from = NoId THEN <<"From account ID cannot be empty">> ELSE <<>>)
    \o (IF r.to = NoId THEN <<"To account ID cannot be empty">> ELSE <<>>)
    \o (IF r.amount <= 0 THEN <<"Amount must be positive">> ELSE <<>>)
    \o (IF r.from = r.to /\ r.from # NoId
        THEN <<"Cannot transfer to the same account">> ELSE <<>>)

\* ------------------------------------------------------------------- init
Snapshot == [customers |-> customers, accounts |-> accounts,
             transactions |-> transactions, bankzAccounts |-> bankzAccounts]

Init ==
    /\ customers = {}
    /\ accounts = <<>>
    /\ transactions = <<>>
    /\ bankzAccounts = (123 :> 20000) @@ (456 :> 10000)
    /\ bankzToken = NoTokenRec
    /\ clock = 0
    /\ nextCustomer = 0
    /\ reqCount = 0
    /\ pc = [p \in Procs |-> "idle"]
    /\ req = [p \in Procs |-> NoReq]
    /\ local = [p \in Procs |-> NoLocal]
    /\ resp = [p \in Procs |-> NoResp]
    /\ mutex = [p \in Procs |-> ""]
    /\ pre = [customers |-> {}, accounts |-> <<>>, transactions |-> <<>>,
              bankzAccounts |-> (123 :> 20000) @@ (456 :> 10000)]

\* A step of handler p that ends the request with response r.
Finish(p, r) ==
    /\ pc' = [pc EXCEPT ![p] = "done"]
    /\ resp' = [resp EXCEPT ![p] = r]

Goto(p, label) ==
    /\ pc' = [pc EXCEPT ![p] = label]
    /\ UNCHANGED resp


SetLocal(p, l) == local' = [local EXCEPT ![p] = l]

\* ------------------------------------------------------------ transferMoney
\* The request arrives and is bound and validated (no shared state is read).
TMBegin(p, r) ==
    /\ pc[p] = "idle"
    /\ reqCount < MaxRequests
    /\ reqCount' = reqCount + 1
    /\ req' = [req EXCEPT ![p] = [r EXCEPT !.no = reqCount + 1]]
    /\ SetLocal(p, NoLocal)
    /\ IF ValidationErrors(r) # <<>>
       THEN Finish(p, Errors(400, ValidationErrors(r)))
       ELSE Goto(p, "tm_getCustomer")
    /\ UNCHANGED <<storeVars, gatewayVars, clock, mutex, nextCustomer>>

TransferRequest(c, f, t, a) ==
    [kind |-> "transfer", customerID |-> c, from |-> f, to |-> t, amount |-> a,
     valid |-> TRUE, no |-> 0]

\* The requests the handlers are given: every customer, source, destination and
\* amount that passes the request checks, and requests that fail one or two of them.
TransferRequests ==
    {TransferRequest(c, f, t, a) : c \in CustomerIds, f \in LocalIds,
                                  t \in LocalIds \cup BankzIds \cup UnknownIds,
                                  a \in {2000, Bonus}}
    \cup {TransferRequest(1, f, t, a) : f \in {NoId, SavingsId(1)},
                                       t \in {NoId, SavingsId(1), CurrentId(1)},
                                       a \in {-2000, 0, 2000}}

\* The requests of the concurrent handlers: customer 1 moves money between its two
\* accounts and to Bank Z, and one request for each way a transfer is turned down.
ConcurrentRequests ==
    {TransferRequest(1, f, t, a) : f \in {CurrentId(1), SavingsId(1)},
                                   t \in {CurrentId(1), SavingsId(1), 123},
                                   a \in {2000, Bonus}}
    \cup {TransferRequest(1, SavingsId(1), CurrentId(1), 0),
          TransferRequest(2, SavingsId(1), CurrentId(1), 2000),
          TransferRequest(1, SavingsId(2), CurrentId(1), 2000),
          TransferRequest(1, SavingsId(1), CurrentId(2), 2000),
          TransferRequest(1, SavingsId(1), 999, 2000)}

TMStart(p) ==
    /\ \E r \in ConcurrentRequests : TMBegin(p, r)
    /\ UNCHANGED pre

TMGetCustomer(p) ==
    /\ pc[p] = "tm_getCustomer"
    /\ IF GetCustomerByID(req[p].customerID)
       THEN Goto(p, "tm_getToken")
       ELSE Finish(p, Errors(404, <<"Customer not found">>))
    /\ UNCHANGED <<storeVars, gatewayVars, clock, mutex, nextCustomer, reqCount, req, local, pre>>

\* GetToken, up to its return of the cached token.  The credentials are the fixed
\* ones NewMockClient sets, so "invalid client credentials" is never returned.
TMGetToken(p) ==
    /\ pc[p] = "tm_getToken"
    /\ IF TokenCached
       THEN /\ SetLocal(p, [local[p] EXCEPT !.token = bankzToken.AccessToken])
            /\ Goto(p, "tm_getFrom")
       ELSE /\ UNCHANGED local
            /\ Goto(p, "tm_mintToken")
    /\ UNCHANGED <<storeVars, gatewayVars, clock, mutex, nextCustomer, reqCount, req, pre>>

TMMintToken(p) ==
    /\ pc[p] = "tm_mintToken"
    /\ bankzToken' = MintedToken
    /\ SetLocal(p, [local[p] EXCEPT !.token = MintedToken.AccessToken])
    /\ Goto(p, "tm_getFrom")
    /\ UNCHANGED <<storeVars, bankzAccounts, clock, mutex, nextCustomer, reqCount, req, pre>>

TMGetFrom(p) ==
    /\ pc[p] = "tm_getFrom"
    /\ LET fromAccount == GetAccountByID(req[p].from) IN
       IF ~AccountFound(req[p].from)
       THEN /\ Finish(p, Errors(400, <<"Source account not found">>))
            /\ UNCHANGED local
       ELSE IF fromAccount.CustomerID # req[p].customerID
       THEN /\ Finish(p, Errors(400, <<"Source account does not belong to the customer">>))
            /\ UNCHANGED local
       ELSE /\ SetLocal(p, [local[p] EXCEPT !.fromAccount = fromAccount])
            /\ Goto(p, "tm_getTo")
    /\ UNCHANGED <<storeVars, gatewayVars, clock, mutex, nextCustomer, reqCount, req, pre>>

\* The lookup of the destination and, for a local destination, the internal
\* transfer's arithmetic on the handler's copies of the two accounts.
TMGetTo(p) ==
    /\ pc[p] = "tm_getTo"
    /\ LET toAccount == GetAccountByID(req[p].to)
           fromAccount == local[p].fromAccount
           amount == req[p].amount
           fee == Fee(fromAccount.Type, amount)
           interest == Interest(toAccount.Type, amount)
       IN
       IF ~AccountFound(req[p].to)
       THEN /\ Goto(p, "tm_getBalance")
            /\ UNCHANGED local
       ELSE IF toAccount.CustomerID # req[p].customerID
       THEN /\ Finish(p, Errors(400, <<"Destination account does not belong to the customer">>))
            /\ UNCHANGED local
       ELSE IF InsufficientFunds(fromAccount.Balance, amount + fee)
       THEN /\ Finish(p, Errors(400, <<"Insufficient funds">>))
            /\ UNCHANGED local
       ELSE /\ SetLocal(p, [local[p] EXCEPT !.fromAccount = Debit(fromAccount, amount + fee),
                                           !.toAccount = Credit(toAccount, amount + interest),
                                           !.fee = fee, !.interest = interest])
            /\ Goto(p, "tm_updateFrom")
    /\ UNCHANGED <<storeVars, gatewayVars, clock, mutex, nextCustomer, reqCount, req, pre>>

\* TMGetBalance with the Bank Z account credited before the funds check.
TMGetBalanceCreditsFirst(p) ==
    /\ pc[p] = "tm_getBalance"
    /\ IF GetBalanceError(req[p].to, local[p].token) # ""
       THEN /\ Finish(p, Errors(400, <<"Destination account not found">>))
            /\ UNCHANGED bankzAccounts
       ELSE /\ bankzAccounts' = Put(bankzAccounts, req[p].to,
                                    bankzAccounts[req[p].to] + req[p].amount)
            /\ IF InsufficientFunds(local[p].fromAccount.Balance, req[p].amount)
               THEN Finish(p, Errors(400, <<"Insufficient funds">>))
               ELSE Goto(p, "tm_initiate")
    /\ UNCHANGED <<storeVars, bankzToken, clock, mutex, nextCustomer, reqCount, req, local, pre>>


\* TMGetBalance with the funds check made before GetBalance's answer is looked at.
TMGetBalanceFundsFirst(p) ==
    /\ pc[p] = "tm_getBalance"
    /\ IF InsufficientFunds(local[p].fromAccount.Balance, req[p].amount)
       THEN Finish(p, Errors(400, <<"Insufficient funds">>))
       ELSE IF GetBalanceError(req[p].to, local[p].token) # ""
       THEN Finish(p, Errors(400, <<"Destination account not found">>))
       ELSE Goto(p, "tm_initiate")
    /\ UNCHANGED <<storeVars, gatewayVars, clock, mutex, nextCustomer, reqCount, req, local, pre>>

\* The destination is no local account: GetBalance decides whether it is a Bank Z
\* account, and the external transfer's funds check follows.
TMGetBalance(p) ==
    /\ pc[p] = "tm_getBalance"
    /\ IF GetBalanceError(req[p].to, local[p].token) # ""
       THEN Finish(p, Errors(400, <<"Destination account not found">>))
       ELSE IF InsufficientFunds(local[p].fromAccount.Balance, req[p].amount)
       THEN Finish(p, Errors(400, <<"Insufficient funds">>))
       ELSE Goto(p, "tm_initiate")
    /\ UNCHANGED <<storeVars, gatewayVars, clock, mutex, nextCustomer, reqCount, req, local, pre>>

\* TMInitiate with the source account debited in the store before the gateway call.
TMInitiateDebitsFirst(p) ==
    /\ pc[p] = "tm_initiate"
    /\ accounts' = UpdateAccount(Debit(local[p].fromAccount, req[p].amount))
    /\ LET err == InitiateTransferError(req[p].to, local[p].token, req[p].amount) IN
       IF err # ""
       THEN /\ Finish(p, Errors(400, <<err>>))
            /\ UNCHANGED local
       ELSE /\ SetLocal(p, [local[p] EXCEPT !.bankzBalance = bankzAccounts[req[p].to]])
            /\ Goto(p, "tm_bankzCredit")
    /\ UNCHANGED <<customers, transactions, gatewayVars, clock, mutex, nextCustomer, reqCount,
                   req, pre>>

\* InitiateTransfer, up to its read of the destination's Bank Z account.
TMInitiate(p) ==
    /\ pc[p] = "tm_initiate"
    /\ LET err == InitiateTransferError(req[p].to, local[p].token, req[p].amount) IN
       IF err # ""
       THEN /\ Finish(p, Errors(400, <<err>>))
            /\ UNCHANGED local
       ELSE /\ SetLocal(p, [local[p] EXCEPT !.bankzBalance = bankzAccounts[req[p].to]])
            /\ Goto(p, "tm_bankzCredit")
    /\ UNCHANGED <<storeVars, gatewayVars, clock, mutex, nextCustomer, reqCount, req, pre>>

\* TMBankzCredit with the internal transfer's fee charged on the source as well.
TMBankzCreditChargesFee(p) ==
    /\ pc[p] = "tm_bankzCredit"
    /\ bankzAccounts' = Put(bankzAccounts, req[p].to, local[p].bankzBalance + req[p].amount)
    /\ SetLocal(p, [local[p] EXCEPT
           !.transactionID = BankzTxId(clock),
           !.fromAccount = Debit(@, req[p].amount + Fee(@.Type, req[p].amount))])
    /\ Goto(p, "tm_extUpdate")
    /\ UNCHANGED <<storeVars, bankzToken, clock, mutex, nextCustomer, reqCount, req, pre>>

\* InitiateTransfer's write of the credited Bank Z account and its return; then the
\* handler debits its copy of the source account.
TMBankzCredit(p) ==
    /\ pc[p] = "tm_bankzCredit"
    /\ bankzAccounts' = Put(bankzAccounts, req[p].to, local[p].bankzBalance + req[p].amount)
    /\ SetLocal(p, [local[p] EXCEPT !.transactionID = BankzTxId(clock),
                                    !.fromAccount = Debit(@, req[p].amount)])
    /\ Goto(p, "tm_extUpdate")
    /\ UNCHANGED <<storeVars, bankzToken, clock, mutex, nextCustomer, reqCount, req, pre>>

TMExtUpdate(p) ==
    /\ pc[p] = "tm_extUpdate"
    /\ accounts' = UpdateAccount(local[p].fromAccount)
    /\ Goto(p, "tm_extAddTx")
    /\ UNCHANGED <<customers, transactions, gatewayVars, clock, mutex, nextCustomer, reqCount,
                   req, local, pre>>

TMExtAddTx(p) ==
    /\ pc[p] = "tm_extAddTx"
    /\ transactions' = AddTransaction(
           Transaction(local[p].transactionID, local[p].fromAccount.ID, req[p].customerID,
                       "bankz_transfer", req[p].amount, local[p].fromAccount.ID, req[p].to))
    /\ Finish(p, Created(local[p].transactionID))
    /\ UNCHANGED <<customers, accounts, gatewayVars, clock, mutex, nextCustomer, reqCount,
                   req, local, pre>>

TMUpdateFrom(p) ==
    /\ pc[p] = "tm_updateFrom"
    /\ accounts' = UpdateAccount(local[p].fromAccount)
    /\ Goto(p, "tm_updateTo")
    /\ UNCHANGED <<customers, transactions, gatewayVars, clock, mutex, nextCustomer, reqCount,
                   req, local, pre>>

TMUpdateTo(p) ==
    /\ pc[p] = "tm_updateTo"
    /\ accounts' = UpdateAccount(local[p].toAccount)
    /\ Goto(p, "tm_addTransfer")
    /\ UNCHANGED <<customers, transactions, gatewayVars, clock, mutex, nextCustomer, reqCount,
                   req, local, pre>>

\* AfterTransfer with the interest tested first, so that a fee is not recorded
\* when there is interest.
AfterTransferSkipsFee(fee, interest) ==
    IF interest > 0 THEN "tm_addInterest" ELSE IF fee > 0 THEN "tm_addFee" ELSE "done"
\* What follows the "transfer" record, and then the "fee" record.
AfterTransfer(fee, interest) ==
    IF fee > 0 THEN "tm_addFee" ELSE IF interest > 0 THEN "tm_addInterest" ELSE "done"
AfterFee(interest) == IF interest > 0 THEN "tm_addInterest" ELSE "done"

\* A step that records a transaction and goes to `next`, which may be the response.
Record(p, transaction, next, id) ==
    /\ transactions' = AddTransaction(transaction)
    /\ IF next = "done" THEN Finish(p, Created(id)) ELSE Goto(p, next)

TMAddTransfer(p) ==
    /\ pc[p] = "tm_addTransfer"
    /\ LET id == Uuid(req[p].no, 0) IN
       /\ SetLocal(p, [local[p] EXCEPT !.transactionID = id])
       /\ Record(p, Transaction(id, local[p].fromAccount.ID, req[p].customerID, "transfer",
                                req[p].amount, local[p].fromAccount.ID, local[p].toAccount.ID),
                 AfterTransfer(local[p].fee, local[p].interest), id)
    /\ UNCHANGED <<customers, accounts, gatewayVars, clock, mutex, nextCustomer, reqCount, req, pre>>

TMAddFee(p) ==
    /\ pc[p] = "tm_addFee"
    /\ Record(p, Transaction(Uuid(req[p].no, 1), local[p].fromAccount.ID, req[p].customerID,
                             "fee", local[p].fee, NoId, NoId),
              AfterFee(local[p].interest), local[p].transactionID)
    /\ UNCHANGED <<customers, accounts, gatewayVars, clock, mutex, nextCustomer, reqCount, req,
                   local, pre>>

TMAddInterest(p) ==
    /\ pc[p] = "tm_addInterest"
    /\ Record(p, Transaction(Uuid(req[p].no, 2), local[p].toAccount.ID, req[p].customerID,
                             "interest", local[p].interest, NoId, NoId),
              "done", local[p].transactionID)
    /\ UNCHANGED <<customers, accounts, gatewayVars, clock, mutex, nextCustomer, reqCount, req,
                   local, pre>>

\* ----------------------------------------------------------- createCustomer
\* The request arrives, is validated (valid: the name and email pass the checks)
\* and the four uuids are drawn.
CCBegin(p, valid) ==
    /\ pc[p] = "idle"
    /\ reqCount < MaxRequests
    /\ valid => nextCustomer < MaxCustomers
    /\ reqCount' = reqCount + 1
    /\ req' = [req EXCEPT ![p] = [NoReq EXCEPT !.kind = "create", !.valid = valid,
                                               !.no = reqCount + 1]]
    /\ IF valid
       THEN /\ nextCustomer' = nextCustomer + 1
            /\ SetLocal(p, [NoLocal EXCEPT !.customerID = nextCustomer + 1])
            /\ Goto(p, "cc_addCustomer")
       ELSE /\ UNCHANGED nextCustomer
            /\ SetLocal(p, NoLocal)
            /\ Finish(p, Errors(400, <<"Invalid name or email">>))
    /\ UNCHANGED <<storeVars, gatewayVars, clock, mutex>>

CCStart(p) ==
    /\ \E valid \in BOOLEAN : CCBegin(p, valid)
    /\ UNCHANGED pre


\* createCustomer going on to open the accounts without having stored the customer.
CCAddCustomerSkipped(p) ==
    /\ pc[p] = "cc_addCustomer"
    /\ Goto(p, "cc_addCurrent")
    /\ UNCHANGED <<storeVars, gatewayVars, clock, mutex, nextCustomer, reqCount, req, local, pre>>

CCAddCustomer(p) ==
    /\ pc[p] = "cc_addCustomer"
    /\ customers' = customers \cup {local[p].customerID}
    /\ Goto(p, "cc_addCurrent")
    /\ UNCHANGED <<accounts, transactions, gatewayVars, clock, mutex, nextCustomer, reqCount,
                   req, local, pre>>

CCAddCurrent(p) ==
    /\ pc[p] = "cc_addCurrent"
    /\ accounts' = AddAccount([ID |-> CurrentId(local[p].customerID),
                               CustomerID |-> local[p].customerID,
                               Type |-> "current", Balance |-> 0])
    /\ Goto(p, "cc_addSavings")
    /\ UNCHANGED <<customers, transactions, gatewayVars, clock, mutex, nextCustomer, reqCount,
                   req, local, pre>>


\* CCAddSavings with the savings account opened empty.
CCAddSavingsEmpty(p) ==
    /\ pc[p] = "cc_addSavings"
    /\ accounts' = AddAccount([ID |-> SavingsId(local[p].customerID),
                               CustomerID |-> local[p].customerID,
                               Type |-> "savings", Balance |-> 0])
    /\ Goto(p, "cc_addBonus")
    /\ UNCHANGED <<customers, transactions, gatewayVars, clock, mutex, nextCustomer, reqCount,
                   req, local, pre>>

CCAddSavings(p) ==
    /\ pc[p] = "cc_addSavings"
    /\ accounts' = AddAccount([ID |-> SavingsId(local[p].customerID),
                               CustomerID |-> local[p].customerID,
                               Type |-> "savings", Balance |-> Bonus])
    /\ Goto(p, "cc_addBonus")
    /\ UNCHANGED <<customers, transactions, gatewayVars, clock, mutex, nextCustomer, reqCount,
                   req, local, pre>>

CCAddBonus(p) ==
    /\ pc[p] = "cc_addBonus"
    /\ transactions' = AddTransaction(
           Transaction(Uuid(req[p].no, 3), SavingsId(local[p].customerID),
                       local[p].customerID, "bonus", Bonus, NoId, NoId))
    /\ Finish(p, [status |-> 201, errors |-> <<>>, transactionID |-> NoTx])
    /\ UNCHANGED <<customers, accounts, gatewayVars, clock, mutex, nextCustomer, reqCount,
                   req, local, pre>>

\* ------------------------------------------------------------- environment
\* The handler has written its response; its goroutine serves the next request.
Return(p) ==
    /\ pc[p] = "done"
    /\ pc' = [pc EXCEPT ![p] = "idle"]
    /\ req' = [req EXCEPT ![p] = NoReq]
    /\ local' = [local EXCEPT ![p] = NoLocal]
    /\ resp' = [resp EXCEPT ![p] = NoResp]
    /\ UNCHANGED <<storeVars, gatewayVars, clock, mutex, nextCustomer, reqCount, pre>>

Tick ==
    /\ clock < MaxClock
    /\ clock' = clock + 1
    /\ UNCHANGED <<storeVars, gatewayVars, mutex, nextCustomer, reqCount, pc, req, local,
                   resp, pre>>

TransferSteps(p) ==
    \/ TMGetCustomer(p) \/ TMGetToken(p) \/ TMMintToken(p) \/ TMGetFrom(p) \/ TMGetTo(p)
    \/ TMGetBalance(p) \/ TMInitiate(p) \/ TMBankzCredit(p) \/ TMExtUpdate(p)
    \/ TMExtAddTx(p) \/ TMUpdateFrom(p) \/ TMUpdateTo(p) \/ TMAddTransfer(p)
    \/ TMAddFee(p) \/ TMAddInterest(p)

CreateSteps(p) ==
    \/ CCAddCustomer(p) \/ CCAddCurrent(p) \/ CCAddSavings(p) \/ CCAddBonus(p)

\* Concurrent handlers, from the empty store.
Next ==
    \/ \E p \in Procs : TMStart(p) \/ CCStart(p) \/ TransferSteps(p) \/ CreateSteps(p) \/ Return(p)
    \/ Tick

Spec == Init /\ [][Next]_vars


\* ------------------------------------------------- one handler at a time
\* Requests served one after the other by a single handler, from the empty store;
\* `pre` keeps the ledger and the Bank Z accounts as each request found them.
SeqTMStart ==
    /\ \E r \in TransferRequests : TMBegin("h1", r)
    /\ pre' = Snapshot

SeqCCStart ==
    /\ \E valid \in BOOLEAN : CCBegin("h1", valid)
    /\ pre' = Snapshot

SeqNext ==
    \/ SeqTMStart \/ SeqCCStart
    \/ TransferSteps("h1") \/ CreateSteps("h1") \/ Return("h1")
    \/ Tick

SpecSeq == Init /\ [][SeqNext]_vars

\* ------------------------------------------- concurrent transfers, one source
\* The store after customer 1 was created; then every handler serves one transfer
\* out of customer 1's savings account (balance Bonus, no fee), to the customer's
\* current account or to Bank Z, for the whole balance or for an equal share of it.
Share == Bonus \div Cardinality(Procs)

RaceInit ==
    /\ customers = {1}
    /\ accounts = (CurrentId(1) :> [ID |-> CurrentId(1), CustomerID |-> 1,
                                    Type |-> "current", Balance |-> 0])
                  @@ (SavingsId(1) :> [ID |-> SavingsId(1), CustomerID |-> 1,
                                       Type |-> "savings", Balance |-> Bonus])
    /\ transactions = (Uuid(1, 3) :> Transaction(Uuid(1, 3), SavingsId(1), 1, "bonus",
                                                 Bonus, NoId, NoId))
    /\ bankzAccounts = (123 :> 20000) @@ (456 :> 10000)
    /\ bankzToken = NoTokenRec
    /\ clock = 0
    /\ nextCustomer = 1
    /\ reqCount = 1
    /\ pc = [p \in Procs |-> "idle"]
    /\ req = [p \in Procs |-> NoReq]
    /\ local = [p \in Procs |-> NoLocal]
    /\ resp = [p \in Procs |-> NoResp]
    /\ mutex = [p \in Procs |-> ""]
    /\ pre = [customers |-> {}, accounts |-> <<>>, transactions |-> <<>>,
              bankzAccounts |-> (123 :> 20000) @@ (456 :> 10000)]

RaceRequests ==
    {TransferRequest(1, SavingsId(1), t, a) : t \in {CurrentId(1), 123}, a \in {Share, Bonus}}

RaceStart(p) ==
    /\ req[p] = NoReq
    /\ \E r \in RaceRequests : TMBegin(p, r)
    /\ UNCHANGED pre

RaceNext ==
    \/ \E p \in Procs :
          \/ RaceStart(p)
          \/ TMGetCustomer(p) \/ TMGetToken(p) \/ TMMintToken(p) \/ TMGetFrom(p)
          \/ TMGetTo(p) \/ TMGetBalance(p) \/ TMInitiate(p) \/ TMBankzCredit(p)
          \/ TMExtUpdate(p) \/ TMExtAddTx(p) \/ TMUpdateFrom(p) \/ TMUpdateTo(p)
          \/ TMAddTransfer(p)
    \/ Tick

SpecRace == RaceInit /\ [][RaceNext]_vars


\* ------------------------------------------------------ the gateway alone
\* The Bank Z client called directly by one caller, one call at a time, with any
\* token, account and amount; the clock moves between the calls.  The call's
\* arguments are kept in req and local, what it returned in local and resp.
GatewayTokens == {NoToken} \cup {TokenId(now) : now \in 0..MaxClock}
GatewayAccounts == BankzIds \cup UnknownIds
GatewayAmounts == {-2000, 0, 2000}

GatewayCall(kind, accountID, amount) ==
    /\ pc["h1"] = "idle"
    /\ reqCount < MaxRequests
    /\ reqCount' = reqCount + 1
    /\ req' = [req EXCEPT !["h1"] = [NoReq EXCEPT !.kind = kind, !.to = accountID,
                                                  !.amount = amount,
                                                  !.no = reqCount + 1]]
    /\ pre' = Snapshot
    /\ UNCHANGED <<storeVars, clock, mutex, nextCustomer>>

GetToken ==
    /\ GatewayCall("GetToken", NoId, 0)
    /\ IF TokenCached
       THEN /\ SetLocal("h1", [NoLocal EXCEPT !.token = bankzToken.AccessToken])
            /\ UNCHANGED bankzToken
       ELSE /\ bankzToken' = MintedToken
            /\ SetLocal("h1", [NoLocal EXCEPT !.token = MintedToken.AccessToken])
    /\ Finish("h1", NoResp)
    /\ UNCHANGED bankzAccounts

GetBalance(accountID, token) ==
    /\ GatewayCall("GetBalance", accountID, 0)
    /\ LET err == GetBalanceError(accountID, token) IN
       IF err # ""
       THEN /\ SetLocal("h1", [NoLocal EXCEPT !.token = token])
            /\ Finish("h1", [NoResp EXCEPT !.errors = <<err>>])
       ELSE /\ SetLocal("h1", [NoLocal EXCEPT !.token = token,
                                              !.bankzBalance = bankzAccounts[accountID]])
            /\ Finish("h1", NoResp)
    /\ UNCHANGED gatewayVars

InitiateTransfer(toAccountID, token, amount) ==
    /\ GatewayCall("InitiateTransfer", toAccountID, amount)
    /\ LET err == InitiateTransferError(toAccountID, token, amount) IN
       IF err # ""
       THEN /\ SetLocal("h1", [NoLocal EXCEPT !.token = token])
            /\ Finish("h1", [NoResp EXCEPT !.errors = <<err>>])
            /\ UNCHANGED bankzAccounts
       ELSE /\ bankzAccounts' = Put(bankzAccounts, toAccountID,
                                    bankzAccounts[toAccountID] + amount)
            /\ SetLocal("h1", [NoLocal EXCEPT !.token = token,
                                              !.transactionID = BankzTxId(clock)])
            /\ Finish("h1", [NoResp EXCEPT !.transactionID = BankzTxId(clock)])
    /\ UNCHANGED bankzToken

GatewayNext ==
    \/ GetToken
    \/ \E accountID \in GatewayAccounts, token \in GatewayTokens :
          GetBalance(accountID, token)
    \/ \E toAccountID \in GatewayAccounts, token \in GatewayTokens,
          amount \in GatewayAmounts : InitiateTransfer(toAccountID, token, amount)
    \/ Return("h1")
    \/ Tick

SpecGateway == Init /\ [][GatewayNext]_vars


\* ------------------------------------------------------- the store's mutex
\* The concurrent handlers with the store's RWMutex made explicit: a store call
\* takes the mutex (RLock for the lookups, Lock for the writes), runs, and gives it
\* back as it returns (defer RUnlock / Unlock); the gateway calls take no lock.
\* The store is the one customer 1's onboarding left.
ReadCalls == {"tm_getCustomer", "tm_getFrom", "tm_getTo"}
WriteCalls == {"tm_extUpdate", "tm_extAddTx", "tm_updateFrom", "tm_updateTo",
               "tm_addTransfer", "tm_addFee", "tm_addInterest",
               "cc_addCustomer", "cc_addCurrent", "cc_addSavings", "cc_addBonus"}

\* s.mutex.RLock(): waits while a writer holds the mutex
RLock(p) ==
    /\ pc[p] \in ReadCalls
    /\ mutex[p] = ""
    /\ \A q \in Procs : mutex[q] \notin WriteCalls
    /\ mutex' = [mutex EXCEPT ![p] = pc[p]]
    /\ UNCHANGED <<storeVars, gatewayVars, clock, nextCustomer, reqCount, pc, req, local,
                   resp, pre>>

\* s.mutex.Lock(): waits while anyone holds the mutex
Lock(p) ==
    /\ pc[p] \in WriteCalls
    /\ mutex[p] = ""
    /\ \A q \in Procs : mutex[q] = ""
    /\ mutex' = [mutex EXCEPT ![p] = pc[p]]
    /\ UNCHANGED <<storeVars, gatewayVars, clock, nextCustomer, reqCount, pc, req, local,
                   resp, pre>>

\* A store call that keeps the mutex when it returns.
UnlockMissing(p) ==
    /\ mutex[p] # ""
    /\ pc[p] # mutex[p]
    /\ UNCHANGED vars

\* defer s.mutex.RUnlock() / defer s.mutex.Unlock(): the call's body has run
Unlock(p) ==
    /\ mutex[p] # ""
    /\ pc[p] # mutex[p]
    /\ mutex' = [mutex EXCEPT ![p] = ""]
    /\ UNCHANGED <<storeVars, gatewayVars, clock, nextCustomer, reqCount, pc, req, local,
                   resp, pre>>

\* The body of the store call for which p holds the mutex.
StoreCall(p) ==
    /\ mutex[p] = pc[p]
    /\ \/ TMGetCustomer(p) \/ TMGetFrom(p) \/ TMGetTo(p)
       \/ TMExtUpdate(p) \/ TMExtAddTx(p) \/ TMUpdateFrom(p) \/ TMUpdateTo(p)
       \/ TMAddTransfer(p) \/ TMAddFee(p) \/ TMAddInterest(p)
       \/ CreateSteps(p)


\* A step of a gateway call made while the handler still holds the store's mutex.
GatewayStepLockHeld(p) ==
    \/ TMGetToken(p) \/ TMMintToken(p) \/ TMGetBalance(p) \/ TMInitiate(p)
    \/ TMBankzCredit(p)

\* A step of a gateway call, made by a handler that is in no store call.
GatewayStep(p) ==
    /\ mutex[p] = ""
    /\ \/ TMGetToken(p) \/ TMMintToken(p) \/ TMGetBalance(p) \/ TMInitiate(p)
       \/ TMBankzCredit(p)

LockRequests ==
    {TransferRequest(1, SavingsId(1), CurrentId(1), Bonus),
     TransferRequest(1, CurrentId(1), SavingsId(1), 2000),
     TransferRequest(1, SavingsId(1), 123, Bonus)}

LockStart(p) ==
    /\ \/ \E r \in LockRequests : TMBegin(p, r)
       \/ \E valid \in BOOLEAN : CCBegin(p, valid)
    /\ UNCHANGED pre

LockReturn(p) ==
    /\ mutex[p] = ""
    /\ Return(p)

\* The steps of handler p's request once it has started.
HandlerStep(p) == StoreCall(p) \/ GatewayStep(p) \/ Unlock(p)

LockNext ==
    \/ \E p \in Procs : LockStart(p) \/ RLock(p) \/ Lock(p) \/ HandlerStep(p) \/ LockReturn(p)
    \/ Tick

\* Every handler goes on with its request; a handler waiting for the mutex gets it
\* if it is free again and again (the runtime hands a starving waiter the mutex,
\* and a waiting writer keeps new readers out).
LockFairness ==
    \A p \in Procs : /\ WF_vars(HandlerStep(p))
                     /\ SF_vars(RLock(p))
                     /\ SF_vars(Lock(p))

SpecLock == RaceInit /\ [][LockNext]_vars /\ LockFairness


\* ================================================================== claims
RECURSIVE SumAmounts(_, _)
SumAmounts(txs, ids) ==
    IF ids = {} THEN 0
    ELSE LET id == CHOOSE x \in ids : TRUE
         IN txs[id].Amount + SumAmounts(txs, ids \ {id})

RECURSIVE SumBalances(_, _)
SumBalances(balances, ids) ==
    IF ids = {} THEN 0
    ELSE LET id == CHOOSE x \in ids : TRUE
         IN balances[id] + SumBalances(balances, ids \ {id})

Accepted(p) == pc[p] = "done" /\ resp[p].status = 201
AllReturned == \A p \in Procs : pc[p] = "done"
NoRequestInProgress == \A p \in Procs : pc[p] \in {"idle", "done"}
SameRequest(r, q) ==
    /\ r.kind = q.kind /\ r.customerID = q.customerID /\ r.from = q.from
    /\ r.to = q.to /\ r.amount = q.amount

\* C1: when every handler has served one transfer of the same amount A = Share
\* from the savings account, whose balance was exactly N * A, to the customer's
\* current account, all N requests were accepted and the savings balance is 0.
C1_ConcurrentTransfersDrainSource ==
    (/\ AllReturned
     /\ \A p \in Procs :
           SameRequest(req[p], TransferRequest(1, SavingsId(1), CurrentId(1), Share)))
    => /\ \A p \in Procs : Accepted(p)
       /\ accounts[SavingsId(1)].Balance = 0

\* C2: of two transfers from the savings account (balance Bonus) whose amounts
\* are each covered by the balance but not both together, at most one is accepted.
C2_AtMostOneAccepted ==
    \A p, q \in Procs :
        (/\ p # q
         /\ req[p].amount <= Bonus /\ req[q].amount <= Bonus
         /\ req[p].amount + req[q].amount > Bonus)
        => ~(Accepted(p) /\ Accepted(q))

\* C3: every stored account has a balance >= 0, in every reachable state.
C3_BalancesNeverNegative ==
    \A id \in DOMAIN accounts : accounts[id].Balance >= 0

\* C3 witness: a committed transfer has emptied customer 1's savings account while
\* the other handler is in the middle of a request.
C3_Witness ==
    /\ \E p \in Procs : Accepted(p) /\ req[p].kind = "transfer" /\ req[p].from = SavingsId(1)
    /\ \E p \in Procs : pc[p] \notin {"idle", "done"}
    /\ SavingsId(1) \in DOMAIN accounts
    /\ accounts[SavingsId(1)].Balance = 0

\* What the recorded transactions say the balance of account `id` is.
Explained(id) ==
    LET ids == DOMAIN transactions
        posted(types) == {x \in ids : transactions[x].AccountID = id
                                      /\ transactions[x].Type \in types}
        received == {x \in ids : transactions[x].ToAccountID = id
                                 /\ transactions[x].Type = "transfer"}
    IN SumAmounts(transactions, posted({"bonus", "interest"}))
       + SumAmounts(transactions, received)
       - SumAmounts(transactions, posted({"transfer", "fee", "bankz_transfer"}))

\* C4: whenever no request is in progress, every account's balance is the one the
\* recorded transactions explain.
C4_TransactionsExplainBalances ==
    NoRequestInProgress => \A id \in DOMAIN accounts : accounts[id].Balance = Explained(id)

\* C5: when the handlers have all returned from transfers to Bank Z (that the
\* gateway gave different transaction IDs), the amount credited to the Bank Z
\* accounts, the amount debited from the savings account and the sum of the
\* recorded "bankz_transfer" amounts are the same.
C5_PartnerMoneyConserved ==
    (/\ AllReturned
     /\ \A p \in Procs : req[p].to \in BankzIds
     /\ \A p, q \in Procs :
           (p # q /\ Accepted(p) /\ Accepted(q))
           => resp[p].transactionID # resp[q].transactionID)
    => LET credited == SumBalances(bankzAccounts, DOMAIN bankzAccounts) - 30000
           debited == Bonus - accounts[SavingsId(1)].Balance
           recorded == SumAmounts(transactions,
                                  {x \in DOMAIN transactions :
                                      transactions[x].Type = "bankz_transfer"})
       IN credited = debited /\ debited = recorded


\* ---------------------------------------- one request, against what it found
\* The request handler h1 has answered, in SpecSeq.
Answered(kind) == pc["h1"] = "done" /\ req["h1"].kind = kind
Rejected(msg) == \E i \in 1..Len(resp["h1"].errors) : resp["h1"].errors[i] = msg
LedgerUntouched ==
    /\ customers = pre.customers
    /\ accounts = pre.accounts
    /\ transactions = pre.transactions

GatewayErrors ==
    {"invalid or expired token", "amount must be positive",
     "destination Bank Z account not found"}

\* C6: a transfer that InitiateTransfer refused answers 400 with the gateway's
\* error alone, and the ledger is as the request found it.
C6_GatewayErrorLeavesLedger ==
    (Answered("transfer") /\ \E e \in GatewayErrors : Rejected(e))
    => /\ resp["h1"].status = 400
       /\ \E e \in GatewayErrors : resp["h1"].errors = <<e>>
       /\ LedgerUntouched

\* C6 witness: the token expired between GetBalance and InitiateTransfer, for a
\* transfer out of an account that holds enough.
C6_Witness ==
    /\ Answered("transfer")
    /\ Rejected("invalid or expired token")
    /\ req["h1"].from \in DOMAIN accounts
    /\ accounts[req["h1"].from].Balance >= req["h1"].amount

RejectionReasons ==
    {"From account ID cannot be empty", "To account ID cannot be empty",
     "Amount must be positive", "Cannot transfer to the same account",
     "Customer not found", "Source account not found",
     "Source account does not belong to the customer",
     "Destination account does not belong to the customer",
     "Destination account not found", "Insufficient funds"}

\* C7: a transfer turned down by a request check, a lookup or the funds check
\* leaves the customers, accounts, transactions and Bank Z balances as it found them.
C7_RejectionChangesNothing ==
    (Answered("transfer") /\ \E e \in RejectionReasons : Rejected(e))
    => /\ resp["h1"].status \in {400, 404}
       /\ LedgerUntouched
       /\ bankzAccounts = pre.bankzAccounts

\* C7 witness: an external transfer turned down for insufficient funds, with a
\* customer, its accounts and its bonus in the ledger.
C7_Witness ==
    /\ Answered("transfer")
    /\ Rejected("Insufficient funds")
    /\ req["h1"].to \in BankzIds
    /\ transactions # <<>>

\* The request of h1 as the store stood when it arrived.
PreFrom == pre.accounts[req["h1"].from]
PreTo == pre.accounts[req["h1"].to]
SourceOwned ==
    /\ ValidationErrors(req["h1"]) = <<>>
    /\ req["h1"].customerID \in pre.customers
    /\ req["h1"].from \in DOMAIN pre.accounts
    /\ PreFrom.CustomerID = req["h1"].customerID
InternalRequest ==
    /\ SourceOwned
    /\ req["h1"].to \in DOMAIN pre.accounts
    /\ PreTo.CustomerID = req["h1"].customerID
ExpectedFee == IF PreFrom.Type = "current" THEN req["h1"].amount \div 2000 ELSE 0
ExpectedInterest == IF PreTo.Type = "savings" THEN req["h1"].amount \div 200 ELSE 0

\* C8: an internal transfer is accepted iff the source holds amount + fee; when
\* accepted, the source balance went down by amount + fee, the destination balance
\* went up by amount + interest, and no other account changed; fee is amount*0.0005
\* for a "current" source and interest is amount*0.005 for a "savings" destination.
C8_InternalTransferAmounts ==
    (Answered("transfer") /\ InternalRequest)
    => LET r == req["h1"] IN
       /\ resp["h1"].status = 201 <=> PreFrom.Balance >= r.amount + ExpectedFee
       /\ resp["h1"].status # 201 => resp["h1"].errors = <<"Insufficient funds">>
       /\ resp["h1"].status = 201 =>
             /\ DOMAIN accounts = DOMAIN pre.accounts
             /\ accounts[r.from] =
                   [PreFrom EXCEPT !.Balance = @ - (r.amount + ExpectedFee)]
             /\ accounts[r.to] =
                   [PreTo EXCEPT !.Balance = @ + r.amount + ExpectedInterest]
             /\ \A id \in DOMAIN accounts \ {r.from, r.to} :
                   accounts[id] = pre.accounts[id]

\* C8 witness: an accepted transfer from a current to a savings account.
C8_Witness ==
    /\ Answered("transfer") /\ InternalRequest
    /\ resp["h1"].status = 201
    /\ ExpectedFee > 0 /\ ExpectedInterest > 0

\* C9: an accepted internal transfer added to the stored transactions exactly one
\* "transfer" record (against the source, for amount, with both account IDs, under
\* the returned ID), one "fee" record against the source iff fee > 0, one "interest"
\* record against the destination iff interest > 0, and nothing else.
C9_InternalTransferRecords ==
    (Answered("transfer") /\ InternalRequest /\ resp["h1"].status = 201)
    => LET r == req["h1"]
           new == DOMAIN transactions \ DOMAIN pre.transactions
           ofType(type) == {id \in new : transactions[id].Type = type}
           only(type) == CHOOSE id \in ofType(type) : TRUE
       IN
       /\ \A id \in DOMAIN pre.transactions :
             id \in DOMAIN transactions /\ transactions[id] = pre.transactions[id]
       /\ Cardinality(ofType("transfer")) = 1
       /\ transactions[only("transfer")] =
             Transaction(resp["h1"].transactionID, r.from, r.customerID, "transfer",
                         r.amount, r.from, r.to)
       /\ Cardinality(ofType("fee")) = IF ExpectedFee > 0 THEN 1 ELSE 0
       /\ ExpectedFee > 0 =>
             /\ transactions[only("fee")].AccountID = r.from
             /\ transactions[only("fee")].Amount = ExpectedFee
       /\ Cardinality(ofType("interest")) = IF ExpectedInterest > 0 THEN 1 ELSE 0
       /\ ExpectedInterest > 0 =>
             /\ transactions[only("interest")].AccountID = r.to
             /\ transactions[only("interest")].Amount = ExpectedInterest
       /\ new = ofType("transfer") \cup ofType("fee") \cup ofType("interest")

\* C9 witness: an accepted transfer that recorded a transfer, a fee and an interest.
C9_Witness ==
    /\ Answered("transfer") /\ InternalRequest
    /\ resp["h1"].status = 201
    /\ Cardinality(DOMAIN transactions \ DOMAIN pre.transactions) = 3

ExternalRequest ==
    /\ SourceOwned
    /\ req["h1"].to \notin DOMAIN pre.accounts
    /\ req["h1"].to \in BankzIds
    /\ PreFrom.Balance >= req["h1"].amount

C11_DestinationResolution ==
    (Answered("transfer") /\ SourceOwned)
    => /\ (/\ req["h1"].to \in DOMAIN pre.accounts
           /\ PreTo.CustomerID # req["h1"].customerID)
          => /\ resp["h1"].status = 400
             /\ resp["h1"].errors = <<"Destination account does not belong to the customer">>
       /\ (/\ req["h1"].to \notin DOMAIN pre.accounts
           /\ req["h1"].to \notin BankzIds)
          => /\ resp["h1"].status = 400
             /\ resp["h1"].errors = <<"Destination account not found">>

\* C11 witness: a destination that is neither local nor at Bank Z, asked for by a
\* customer whose source account holds less than the amount.
C11_Witness ==
    /\ Answered("transfer")
    /\ SourceOwned
    /\ req["h1"].to \notin DOMAIN pre.accounts
    /\ req["h1"].to \notin BankzIds
    /\ PreFrom.Balance < req["h1"].amount
    /\ Rejected("Destination account not found")


\* ------------------------------------------------------ order of the checks
PreconditionErrors ==
    {"Amount must be positive", "Cannot transfer to the same account",
     "Customer not found", "Source account not found",
     "Source account does not belong to the customer"}

\* C12 as stated: of the preconditions (1) amount > 0, (2) source and destination
\* differ, (3) the customer exists, (4) the source exists and is the customer's,
\* a transfer that fails some of them reports the earliest failing one alone.
C12_FirstFailureOnly ==
    (Answered("transfer") /\ req["h1"].from # NoId /\ req["h1"].to # NoId)
    => LET r == req["h1"]
           only(status, msg) == resp["h1"].status = status /\ resp["h1"].errors = <<msg>>
       IN
       IF r.amount <= 0 THEN only(400, "Amount must be positive")
       ELSE IF r.from = r.to THEN only(400, "Cannot transfer to the same account")
       ELSE IF r.customerID \notin pre.customers THEN only(404, "Customer not found")
       ELSE IF r.from \notin DOMAIN pre.accounts THEN only(400, "Source account not found")
       ELSE IF PreFrom.CustomerID # r.customerID
       THEN only(400, "Source account does not belong to the customer")
       ELSE \A e \in PreconditionErrors : ~Rejected(e)

\* The request checks that r fails, in the order the handler makes them.
FailedRequestChecks(r) ==
    LET checks == <<[failed |-> r.from = NoId, msg |-> "From account ID cannot be empty"],
                    [failed |-> r.to = NoId, msg |-> "To account ID cannot be empty"],
                    [failed |-> r.amount <= 0, msg |-> "Amount must be positive"],
                    [failed |-> r.from = r.to /\ r.from # NoId,
                     msg |-> "Cannot transfer to the same account"]>>
        failing == SelectSeq(checks, LAMBDA c : c.failed)
    IN [i \in 1..Len(failing) |-> failing[i].msg]

\* C12, amended: the request checks (source ID given, destination ID given,
\* amount > 0, source and destination differ) are made together and a request
\* failing any of them is answered 400 with every failed check, in that order;
\* a request passing them is then checked for (3) the customer and (4) the source
\* in this order, and the first of these that fails is reported alone.
C12_ValidationOrder ==
    Answered("transfer")
    => LET r == req["h1"]
           only(status, msg) == resp["h1"].status = status /\ resp["h1"].errors = <<msg>>
       IN
       IF FailedRequestChecks(r) # <<>>
       THEN resp["h1"].status = 400 /\ resp["h1"].errors = FailedRequestChecks(r)
       ELSE IF r.customerID \notin pre.customers THEN only(404, "Customer not found")
       ELSE IF r.from \notin DOMAIN pre.accounts THEN only(400, "Source account not found")
       ELSE IF PreFrom.CustomerID # r.customerID
       THEN only(400, "Source account does not belong to the customer")
       ELSE \A e \in PreconditionErrors : ~Rejected(e)

\* C12 witness: a request with a non-positive amount and the same account on both
\* sides, for a customer that does not exist, answered with the two request checks.
C12_Witness ==
    /\ Answered("transfer")
    /\ req["h1"].amount <= 0
    /\ req["h1"].from = req["h1"].to
    /\ req["h1"].customerID \notin pre.customers
    /\ resp["h1"].errors = <<"Amount must be positive", "Cannot transfer to the same account">>


\* --------------------------------------------------------------- onboarding
\* C13: when createCustomer has answered 201, a read finds the new customer, finds
\* exactly its two accounts (current with balance 0, savings with balance 500.0)
\* and lists exactly one transaction for it, the bonus of 500.0 against the savings
\* account; the rest of the ledger is as before.  A createCustomer turned down by
\* validation answers 400 and leaves the ledger as it found it.
C13_CreateCustomerWrites ==
    Answered("create")
    => IF req["h1"].valid
       THEN LET c == local["h1"].customerID
                listed == GetTransactionsByCustomerID(c)
            IN
            /\ resp["h1"].status = 201
            /\ c \notin pre.customers
            /\ GetCustomerByID(c)
            /\ customers = pre.customers \cup {c}
            /\ GetAccountsByCustomerID(c) =
                  {[ID |-> CurrentId(c), CustomerID |-> c, Type |-> "current", Balance |-> 0],
                   [ID |-> SavingsId(c), CustomerID |-> c, Type |-> "savings",
                    Balance |-> Bonus]}
            /\ \A id \in DOMAIN pre.accounts : accounts[id] = pre.accounts[id]
            /\ Cardinality(listed) = 1
            /\ \A t \in listed : /\ t.Type = "bonus"
                                 /\ t.Amount = Bonus
                                 /\ t.AccountID = SavingsId(c)
                                 /\ t.CustomerID = c
            /\ Cardinality(DOMAIN transactions) = Cardinality(DOMAIN pre.transactions) + 1
            /\ \A id \in DOMAIN pre.transactions : transactions[id] = pre.transactions[id]
       ELSE /\ resp["h1"].status = 400
            /\ LedgerUntouched

\* C13 witness: a second customer created after the first one's accounts and
\* transactions were already in the ledger.
C13_Witness ==
    /\ Answered("create")
    /\ resp["h1"].status = 201
    /\ pre.customers # {}
    /\ Cardinality(GetAccountsByCustomerID(local["h1"].customerID)) = 2


\* ------------------------------------------------------ the gateway's calls
\* The caller's call of the gateway method `kind` is the step being taken.
Calls(kind) == pc["h1"] = "idle" /\ pc'["h1"] = "done" /\ req'["h1"].kind = kind
\* The gateway holds the token record `held`, `token` is its token and its expiry
\* has not passed at the time `now`.
TokenAccepted(held, token, now) ==
    /\ held # NoTokenRec
    /\ token = held.AccessToken
    /\ held.ExpiresAt >= now

\* C14: GetToken returns the cached token, minting nothing, while the cached
\* token's expiry is in the future; otherwise it mints a token named after the
\* current time that expires TokenTTL (one hour) later, caches and returns it; the
\* token it returns is accepted at the same clock value.  GetBalance and
\* InitiateTransfer refuse a token exactly when it is not the last minted token
\* or its expiry has passed.
C14_TokenContract ==
    [][/\ Calls("GetToken")
          => /\ IF bankzToken # NoTokenRec /\ bankzToken.ExpiresAt > clock
                THEN bankzToken' = bankzToken
                ELSE bankzToken' = [AccessToken |-> <<"token", clock>>,
                                    ExpiresAt |-> clock + TokenTTL]
             /\ local'["h1"].token = bankzToken'.AccessToken
             /\ clock' = clock
             /\ TokenAccepted(bankzToken', local'["h1"].token, clock')
       /\ (Calls("GetBalance") \/ Calls("InitiateTransfer"))
          => /\ bankzToken' = bankzToken
             /\ TokenAccepted(bankzToken, local'["h1"].token, clock)
                <=> resp'["h1"].errors # <<"invalid or expired token">>
      ]_vars

\* C14 witness: a call was refused for its token while the gateway holds a token
\* that has not expired: the token passed is not the last one minted.
C14_Witness ==
    /\ pc["h1"] = "done"
    /\ req["h1"].kind \in {"GetBalance", "InitiateTransfer"}
    /\ resp["h1"].errors = <<"invalid or expired token">>
    /\ local["h1"].token \in {TokenId(now) : now \in 0..MaxClock}
    /\ bankzToken # NoTokenRec
    /\ bankzToken.ExpiresAt > clock


\* C15: InitiateTransfer checks the token, then the amount, then the destination,
\* and reports the first check that fails, leaving every Bank Z balance as it
\* was; when all pass it adds exactly the amount to the destination's balance,
\* leaves every other Bank Z balance alone and returns a transaction ID.
C15_InitiateTransferContract ==
    [][Calls("InitiateTransfer")
       => LET to == req'["h1"].to
              amount == req'["h1"].amount
              refused(msg) == /\ resp'["h1"].errors = <<msg>>
                              /\ resp'["h1"].transactionID = NoTx
                              /\ bankzAccounts' = bankzAccounts
          IN
          IF ~TokenAccepted(bankzToken, local'["h1"].token, clock)
          THEN refused("invalid or expired token")
          ELSE IF amount <= 0 THEN refused("amount must be positive")
          ELSE IF to \notin DOMAIN bankzAccounts
          THEN refused("destination Bank Z account not found")
          ELSE /\ resp'["h1"].errors = <<>>
               /\ resp'["h1"].transactionID # NoTx
               /\ DOMAIN bankzAccounts' = DOMAIN bankzAccounts
               /\ bankzAccounts'[to] = bankzAccounts[to] + amount
               /\ \A other \in DOMAIN bankzAccounts \ {to} :
                     bankzAccounts'[other] = bankzAccounts[other]
      ]_vars

\* C15 witness: a call failing all three checks at once was refused for its token,
\* after an earlier call had credited a Bank Z account.
C15_Witness ==
    /\ pc["h1"] = "done"
    /\ req["h1"].kind = "InitiateTransfer"
    /\ req["h1"].amount <= 0
    /\ req["h1"].to \notin BankzIds
    /\ resp["h1"].errors = <<"invalid or expired token">>
    /\ SumBalances(bankzAccounts, DOMAIN bankzAccounts) > 30000


\* ------------------------------------------------ what a concurrent request sees
\* C16: while a handler is between the writes of an internal transfer (the source
\* stored debited and the destination not yet credited, or both balances stored
\* and the "transfer" record not yet), no other handler holds a copy of the
\* debited source account read from the store.
C16_TransferAtomic ==
    \A p, q \in Procs :
       (/\ p # q
        /\ pc[p] \in {"tm_updateTo", "tm_addTransfer"}
        /\ accounts[req[p].from] = local[p].fromAccount)
       => ~(/\ pc[q] = "tm_getTo"
            /\ local[q].fromAccount = accounts[req[p].from])


\* C17: a transfer answered "Destination account not found" names a destination
\* that is neither a local account nor one of the Bank Z accounts.
C17_NotFoundOnlyIfUnknown ==
    \A p \in Procs :
       (pc[p] = "done" /\ resp[p].errors = <<"Destination account not found">>)
       => /\ req[p].to \notin DOMAIN accounts
          /\ req[p].to \notin BankzIds


\* ---------------------------------------------------------- the transaction log
\* The positions at which a handler's next step is a call of AddTransaction.
AddTransactionCalls == {"tm_extAddTx", "tm_addTransfer", "tm_addFee", "tm_addInterest",
                        "cc_addBonus"}

\* C18: no step changes or removes a stored transaction, and every call of
\* AddTransaction makes the stored transactions one more.
C18_TransactionsAppendOnly ==
    [][/\ \A id \in DOMAIN transactions :
             id \in DOMAIN transactions' /\ transactions'[id] = transactions[id]
       /\ \A p \in Procs :
             (pc[p] \in AddTransactionCalls /\ pc'[p] # pc[p])
             => Cardinality(DOMAIN transactions') = Cardinality(DOMAIN transactions) + 1
      ]_vars


\* ----------------------------------------------------- referential integrity
\* C19: in every state, also between the writes of a createCustomer and with
\* other requests under way, every stored account is filed under its own ID and
\* belongs to a stored customer, and every stored transaction is filed under its
\* own ID and is posted against a stored account.
C19_ReferentialIntegrity ==
    /\ \A id \in DOMAIN accounts :
          accounts[id].ID = id /\ accounts[id].CustomerID \in customers
    /\ \A id \in DOMAIN transactions :
          transactions[id].ID = id /\ transactions[id].AccountID \in DOMAIN accounts

\* C19 witness: a createCustomer that has stored the customer and the current
\* account but not yet the savings account, while the other handler is in the
\* middle of a transfer between accounts of an earlier customer.
C19_Witness ==
    \E p, q \in Procs :
       /\ pc[p] = "cc_addSavings"
       /\ CurrentId(local[p].customerID) \in DOMAIN accounts
       /\ pc[q] \in {"tm_updateTo", "tm_addTransfer", "tm_extAddTx"}


\* ------------------------------------------------------------------ progress
\* C20: under fair scheduling every createCustomer and transferMoney request a
\* handler has started is eventually answered, with the handler holding no lock;
\* in particular no handler waits for the store's mutex for ever.
C20_RequestsReturn ==
    \A p \in Procs : (pc[p] # "idle") ~> (pc[p] = "done" /\ mutex[p] = "")

\* C20 witness: a handler that is about to write to the store finds the mutex
\* held by the other handler and has to wait.
C20_Witness ==
    \E p, q \in Procs :
       /\ pc[p] \in WriteCalls
       /\ mutex[p] = ""
       /\ mutex[q] \in WriteCalls \cup ReadCalls
       /\ req[p].kind = "create"
       /\ req[q].kind = "transfer"


\* ------------------------------------------------- no lock across the gateway
\* The positions at which a handler's next step belongs to a gateway call, and
\* those at which it is in the middle of one (GetToken between its look at the
\* cached token and the mint, InitiateTransfer between its checks and the credit).
GatewayCalls == {"tm_getToken", "tm_mintToken", "tm_getBalance", "tm_initiate",
                 "tm_bankzCredit"}
InsideGatewayCall == {"tm_mintToken", "tm_bankzCredit"}

\* C21: a handler in the middle of a gateway call holds neither the read nor the
\* write lock of the store, every step of GetToken, GetBalance and
\* InitiateTransfer is taken by a handler that holds none, and a handler that
\* holds no lock and is about to write to the store while the other is in the
\* middle of a gateway call finds the mutex free unless a third store call has it.
C21_NoLockDuringGatewayCall ==
    /\ [](\A p \in Procs : pc[p] \in InsideGatewayCall => mutex[p] = "")
    /\ [](\A p, q \in Procs :
             (/\ pc[p] \in InsideGatewayCall
              /\ pc[q] \in WriteCalls
              /\ mutex[q] = ""
              /\ \A r \in Procs \ {p, q} : mutex[r] = "")
             => ENABLED Lock(q))
    /\ [][\A p \in Procs :
             (pc[p] \in GatewayCalls /\ pc'[p] # pc[p]) => mutex[p] = ""]_vars

\* C21 witness: a handler is in the middle of InitiateTransfer while the other
\* holds the write lock for a transfer between two local accounts.
C21_Witness ==
    \E p, q \in Procs :
       /\ pc[p] = "tm_bankzCredit"
       /\ mutex[q] \in {"tm_updateFrom", "tm_updateTo", "tm_addTransfer"}
       /\ req[q].to \in DOMAIN accounts

====
